---- MODULE Spec2Model ----
(***************************************************************************)
(* Mentis-CLI: the agent turn loop (ReplManager.handleChat), the history   *)
(* compaction, the JSON-RPC client of the MCP sessions (JsonRpcClient),    *)
(* the handshake of a session (McpClient, /mcp connect, /mcp disconnect),  *)
(* the persistent shell (PersistentShell, PersistentShellTool) and the     *)
(* context meter (ContextVisualizer).                                      *)
(*                                                                         *)
(* The event loop is single threaded: an action is the code that runs      *)
(* between two suspension points (await), so the control positions of the  *)
(* model are the awaits of the source.                                     *)
(***************************************************************************)
EXTENDS Integers, Sequences, FiniteSets, TLC

(***************************************************************************)
(* Bounds of the model.                                                    *)
(***************************************************************************)
\* tool calls in one model response
MaxBatch == 2
\* tool calls issued by the model over the whole session (ids 1..MaxCallIds)
MaxCallIds == 2
\* user inputs handed to handleChat
MaxTurns == 3

VARIABLES
    \* ---- ReplManager ----
    history,      \* this.history: sequence of ChatMessage
    tools,        \* this.tools: the names of the registered tools
    activeSkill,  \* this.activeSkill: "null" or the name of the loaded skill
    yolo,         \* this.options.yolo
    pc,           \* suspension point of the REPL: idle, chat, prompt, exec, compactPrompt, compactChat
    tool_calls,   \* response.tool_calls of the response being processed
    idx,          \* position of the for loop (1-based) when suspended in prompt or exec
    aborted,      \* controller.signal.aborted of the current turn
    listeners,    \* number of registrations of keyListener on process.stdin
    \* ---- observation of the run (not program state) ----
    outcome,      \* how the last turn ended: none, final, cancelled, failed
    started,      \* ids of the calls whose loop body was entered (past line 460)
    executed,     \* ids of the calls whose tool.execute was invoked
    declined,     \* ids of the calls whose confirmation was answered no
    skipped,      \* ids of the calls of a recorded batch that a cancellation kept from starting
    unparsed,     \* ids of the calls whose arguments JSON.parse rejected (line 464)
    failedCalls,  \* ids of the calls whose execute threw or whose tool was not found
    nextId,       \* next tool call id the model adapter hands out
    turns,        \* turns started so far
    skillsReady,  \* initializeSkills has pushed its tools
    chatResult,   \* how the latest modelClient.chat call settled: none, pending, tool_calls,
                  \* final, rejected, summary, summary_rejected
    advertised,   \* the tool sets handleChat handed to modelClient.chat in the current turn
    \* ---- handleMcpCommand('connect') and its McpClient ----
    mcpPc,        \* none, initialize, listTools (the awaits of lines 907 and 908), connected,
                  \* failed, closed (after /mcp disconnect)
    mcpClients,   \* this.mcpClients.length
    adapterCall,  \* the execute call made on a McpToolAdapter: status none, pending,
                  \* returned or threw, the result the server sent, the string returned
    \* ---- JsonRpcClient (one RPC session) ----
    sequence,         \* this.sequence
    pendingRequests,  \* this.pendingRequests: request id -> the promise its handlers settle
    killed,           \* disconnect() has called process.kill()
    rpcWire,          \* the messages written to the child's stdin, in order: id (-1 for a
                      \* notification), method, at: the lines handled before it was written
    promises,         \* the promises sendRequest returned, in call order (observation)
    received,         \* per line handed to handleMessage: the id it answers, -1 if it is no response (observation)
    \* ---- PersistentShell ----
    buffer,           \* this.buffer: the accumulated output, a sequence of tokens
    resolveCallback,  \* this.resolveCallback: 0 (null) or the command whose promise it resolves
    rejectCallback,   \* this.rejectCallback: likewise
    shellStdin,       \* the commands written to the shell's stdin, in order
    ran,              \* how many of them the shell has run
    stdoutPipe,       \* tokens the shell wrote to stdout, not yet read
    stderrPipe,       \* tokens the shell wrote to stderr, not yet read
    alive,            \* the shell process has not exited
    commands,         \* the execute calls so far, in call order (observation); live: the
                      \* shell process had not ended when the call was made
    \* ---- ContextVisualizer ----
    measured,         \* the history handed to calculateUsage: per message the length of
                      \* its content and of JSON.stringify(tool_calls) (0: no tool_calls)
    usage             \* the ContextUsage calculateUsage returned for it

loopVars == <<history, tools, activeSkill, yolo, skillsReady, pc, tool_calls, idx, aborted,
              listeners, outcome, started, executed, declined, failedCalls, nextId, turns,
              chatResult, advertised, skipped, unparsed>>

mcpVars == <<mcpPc, mcpClients, adapterCall>>

rpcVars == <<sequence, pendingRequests, killed, rpcWire, promises, received>>

shellVars == <<buffer, resolveCallback, rejectCallback, shellStdin, ran, stdoutPipe, stderrPipe,
               alive, commands>>

usageVars == <<measured, usage>>

vars == <<loopVars, rpcVars, shellVars, mcpVars, usageVars>>

(***************************************************************************)
(* Data: messages, tool calls, the tool registry.                          *)
(***************************************************************************)
\* ChatMessage of ModelInterface.ts; tool_call_id 0 and tool_calls <<>> stand for absent
Msg(role, id, calls, content) ==
    [role |-> role, tool_call_id |-> id, tool_calls |-> calls, content |-> content]

\* the eleven tools the constructor registers
BuiltinTools ==
    {"write_file", "read_file", "list_dir", "search_file", "web_search", "git_status",
     "git_diff", "git_commit", "git_push", "git_pull", "run_shell"}

\* the five tools initializeSkills pushes
SkillTools ==
    {"load_skill", "list_skills", "read_skill_file", "slash_command", "list_commands"}

\* the tool names the model asks for in this model: a confirmed write, a plain
\* built-in, a git operation, a skill tool and a name no registry holds
RequestedNames == {"write_file", "read_file", "git_commit", "load_skill", "ghost_tool"}

\* the skill the model can load; its allowed-tools list
SkillName == "writer"
AllowedTools(skill) == IF skill = SkillName THEN {"Write"} ELSE {}

\* toolMapping of isToolAllowedBySkill
ToolMapping(n) ==
    CASE n = "write_file" -> "Write"
      [] n = "read_file" -> "Read"
      [] n = "git_commit" -> "GitCommit"
      [] n = "load_skill" -> "Read"
      [] OTHER -> n   \* also "Write", the name line 475 passes

\* isToolAllowedBySkill (lines 129-165), sk the value of this.activeSkill
isToolAllowedBySkill(sk, toolName) ==
    IF sk = "null" THEN FALSE
    ELSE IF AllowedTools(sk) = {} THEN FALSE
    ELSE ToolMapping(toolName) \in AllowedTools(sk)

\* line 475: the only call that asks for a confirmation
NeedsConfirm(sk, call) == call.name = "write_file" /\ ~isToolAllowedBySkill(sk, "Write")

\* process.stdin.removeListener('keypress', keyListener): removes one registration
RemoveListener(ls) == IF ls > 0 THEN ls - 1 ELSE 0

(***************************************************************************)
(* ConversationCompacter.compact                                          *)
(***************************************************************************)
IsPreserved(m) == m.role = "system" \/ m.role = "tool"
IsCompacted(m) == ~IsPreserved(m)

SummaryMsg == Msg("system", 0, <<>>, "summary")

\* mutant: a summary is appended even when there is nothing to compact
compact_AlwaysSummarises(h) == Append(SelectSeq(h, IsPreserved), SummaryMsg)

\* the history compact returns when the summarisation call succeeds
compact(h) ==
    LET preserved == SelectSeq(h, IsPreserved)
        toCompact == SelectSeq(h, IsCompacted)
    IN  IF Len(toCompact) = 0 THEN h ELSE Append(preserved, SummaryMsg)

(***************************************************************************)
(* ReplManager.handleChat                                                  *)
(***************************************************************************)
\* mutant: the tool message is pushed without the id of the call it answers
ToolMsg_NoId(call, content) == Msg("tool", 0, <<>>, content)

\* a tool message (lines 502-507 and 537-542)
ToolMsg(call, content) == Msg("tool", call.id, <<>>, content)

\* mutant: the assistant message records the first call of the batch only
AssistantCallMsg_FirstOnly(calls) == Msg("assistant", 0, <<calls[1].id>>, "text")

\* the assistant message recording the batch (lines 452-456)
AssistantCallMsg(calls) == Msg("assistant", 0, [k \in 1..Len(calls) |-> calls[k].id], "text")

\* mutant: the turn returns without removing the key listener
Finish_KeepsListener(h, st, fc, ls, status) ==
    [pc |-> "idle", idx |-> 0, history |-> h, started |-> st, failedCalls |-> fc,
     executed |-> {}, listeners |-> ls, outcome |-> status]

\* catch and finally (lines 591-605): the turn is over, the REPL reads the next input
Finish(h, st, fc, ls, status) ==
    [pc |-> "idle", idx |-> 0, history |-> h, started |-> st, failedCalls |-> fc,
     executed |-> {}, listeners |-> RemoveListener(ls), outcome |-> status]

\* the text a call with no registered tool gets (line 530)
NotFoundContent == "error_notfound"

\* tools.find (line 517)
FindTool(reg, name) == name \in reg

RECURSIVE RunFor(_, _, _, _, _, _, _, _)
RECURSIVE Dispatch(_, _, _, _, _, _, _, _)

\* mutant: a tool name that is not registered throws instead of being answered
Dispatch_UnknownThrows(calls, h, i, st, fc, ls, ab, sk) ==
    IF FindTool(tools, calls[i].name)
    THEN [pc |-> "exec", idx |-> i, history |-> h, started |-> st, failedCalls |-> fc,
          executed |-> {calls[i].id}, listeners |-> ls, outcome |-> "none"]
    ELSE Finish(h, st, fc \cup {calls[i].id}, ls, "failed")

\* mutant: tool.execute is not awaited, the loop goes on with the next call
Dispatch_NoAwait(calls, h, i, st, fc, ls, ab, sk) ==
    IF FindTool(tools, calls[i].name)
    THEN LET r == RunFor(calls, h, i + 1, st, fc, ls, ab, sk)
         IN  [r EXCEPT !.executed = @ \cup {calls[i].id}]
    ELSE RunFor(calls, Append(h, ToolMsg(calls[i], NotFoundContent)), i + 1, st,
                fc \cup {calls[i].id}, ls, ab, sk)

\* lines 517-531 for call i: suspend in tool.execute, or answer "not found" and go on
Dispatch(calls, h, i, st, fc, ls, ab, sk) ==
    IF FindTool(tools, calls[i].name)
    THEN [pc |-> "exec", idx |-> i, history |-> h, started |-> st, failedCalls |-> fc,
          executed |-> {calls[i].id}, listeners |-> ls, outcome |-> "none"]
    ELSE RunFor(calls, Append(h, ToolMsg(calls[i], NotFoundContent)), i + 1, st,
                fc \cup {calls[i].id}, ls, ab, sk)

\* mutant: arguments that do not parse are answered with an error tool message
RunFor_ParseErrorAnswered(calls, h, i, st, fc, ls, ab, sk) ==
    IF i > Len(calls)
    THEN IF ab THEN Finish(h, st, fc, ls, "cancelled")
         ELSE [pc |-> "chat", idx |-> 0, history |-> h, started |-> st, failedCalls |-> fc,
               executed |-> {}, listeners |-> ls, outcome |-> "none"]
    ELSE IF ab THEN Finish(h, st, fc, ls, "cancelled")
    ELSE IF calls[i].args = "garbage"
    THEN RunFor(calls, Append(h, ToolMsg(calls[i], "error_exec")), i + 1,
                st \cup {calls[i].id}, fc \cup {calls[i].id}, ls, ab, sk)
    ELSE IF NeedsConfirm(sk, calls[i])
    THEN [pc |-> "prompt", idx |-> i, history |-> h, started |-> st \cup {calls[i].id},
          failedCalls |-> fc, executed |-> {}, listeners |-> RemoveListener(ls),
          outcome |-> "none"]
    ELSE Dispatch(calls, h, i, st \cup {calls[i].id}, fc, ls, ab, sk)

\* mutant: the loop looks at the abort signal only after the last call (line 545)
RunFor_NoAbortCheck(calls, h, i, st, fc, ls, ab, sk) ==
    IF i > Len(calls)
    THEN IF ab THEN Finish(h, st, fc, ls, "cancelled")
         ELSE [pc |-> "chat", idx |-> 0, history |-> h, started |-> st, failedCalls |-> fc,
               executed |-> {}, listeners |-> ls, outcome |-> "none"]
    ELSE IF calls[i].args = "garbage" THEN Finish(h, st \cup {calls[i].id}, fc, ls, "failed")
    ELSE IF NeedsConfirm(sk, calls[i])
    THEN [pc |-> "prompt", idx |-> i, history |-> h, started |-> st \cup {calls[i].id},
          failedCalls |-> fc, executed |-> {}, listeners |-> RemoveListener(ls),
          outcome |-> "none"]
    ELSE Dispatch(calls, h, i, st \cup {calls[i].id}, fc, ls, ab, sk)

\* lines 459-557: the for loop from call i up to the next suspension point
RunFor(calls, h, i, st, fc, ls, ab, sk) ==
    IF i > Len(calls)
    THEN IF ab THEN Finish(h, st, fc, ls, "cancelled")
         ELSE [pc |-> "chat", idx |-> 0, history |-> h, started |-> st, failedCalls |-> fc,
               executed |-> {}, listeners |-> ls, outcome |-> "none"]
    ELSE IF ab THEN Finish(h, st, fc, ls, "cancelled")
    ELSE IF calls[i].args = "garbage" THEN Finish(h, st \cup {calls[i].id}, fc, ls, "failed")
    ELSE IF NeedsConfirm(sk, calls[i])
    THEN [pc |-> "prompt", idx |-> i, history |-> h, started |-> st \cup {calls[i].id},
          failedCalls |-> fc, executed |-> {}, listeners |-> RemoveListener(ls),
          outcome |-> "none"]
    ELSE Dispatch(calls, h, i, st \cup {calls[i].id}, fc, ls, ab, sk)

\* mutant: a declined confirmation ends the turn as a cancellation
Declined_EndsTurn(calls, h, i, st, fc, ls, ab, sk) ==
    Finish(Append(h, ToolMsg(calls[i], "rejected")), st, fc, ls, "cancelled")

\* lines 501-513: the user answered no: the rejection text, then the next call
Declined(calls, h, i, st, fc, ls, ab, sk) ==
    RunFor(calls, Append(h, ToolMsg(calls[i], "rejected")), i + 1, st, fc, ls, ab, sk)

\* the assistant message of the batch was pushed (line 452)
IsRecorded(h, calls) == \E k \in 1..Len(h) : h[k] = AssistantCallMsg(calls)

\* the variables a continuation of handleChat sets; calls is response.tool_calls,
\* a local that is gone when the turn returns; a turn that ends cancelled leaves the
\* calls after the break of line 460 unstarted
Continue(r, calls) ==
    /\ pc' = r.pc
    /\ idx' = r.idx
    /\ history' = r.history
    /\ started' = r.started
    /\ failedCalls' = r.failedCalls
    /\ executed' = executed \cup r.executed
    /\ listeners' = r.listeners
    /\ outcome' = r.outcome
    /\ tool_calls' = IF r.pc = "idle" THEN <<>> ELSE calls
    /\ skipped' = IF r.outcome = "cancelled" /\ IsRecorded(r.history, calls)
                  THEN skipped \cup ({calls[k].id : k \in 1..Len(calls)} \ r.started)
                  ELSE skipped
    /\ unparsed' = unparsed \cup {calls[k].id : k \in {m \in 1..Len(calls) :
                                       calls[m].args = "garbage" /\ calls[m].id \in r.started}}

\* a continuation that suspends at pc without touching the for loop
Suspend(p, h) ==
    [pc |-> p, idx |-> 0, history |-> h, started |-> started, failedCalls |-> failedCalls,
     executed |-> {}, listeners |-> listeners, outcome |-> "none"]

\* the responses the model adapter can return: 1..MaxBatch calls with fresh ids;
\* toolCall.function.arguments "json" parses, "garbage" makes JSON.parse throw
CallShapes ==
    [name : RequestedNames, args : {"json"}] \cup [name : {"read_file"}, args : {"garbage"}]
Batches == UNION {[1..n -> CallShapes] : n \in 1..MaxBatch}
WithIds(shapes, first) ==
    [k \in 1..Len(shapes) |-> [id |-> first + k - 1, name |-> shapes[k].name, args |-> shapes[k].args]]

LoopInit ==
    /\ history = <<>>
    /\ tools = BuiltinTools
    /\ activeSkill = "null"
    /\ yolo \in BOOLEAN
    /\ skillsReady = FALSE
    /\ pc = "idle"
    /\ tool_calls = <<>>
    /\ idx = 0
    /\ aborted = FALSE
    /\ listeners = 0
    /\ outcome = "none"
    /\ started = {}
    /\ executed = {}
    /\ declined = {}
    /\ failedCalls = {}
    /\ nextId = 1
    /\ turns = 0
    /\ chatResult = "none"
    /\ advertised = {}
    /\ skipped = {}
    /\ unparsed = {}

\* the status of the latest adapter call after a continuation: pending when the
\* continuation awaits modelClient.chat again (lines 436, 550 and compact line 60);
\* the call of line 550 is handed this.tools as it is at that moment
Awaits(res) ==
    /\ chatResult' = IF pc' \in {"chat", "compactChat"} THEN "pending" ELSE res
    /\ advertised' = IF pc' = "chat" THEN advertised \cup {tools} ELSE advertised

\* initializeSkills (lines 103-123) completes: the constructor did not await it
SkillsInitialized ==
    /\ ~skillsReady
    /\ skillsReady' = TRUE
    /\ tools' = tools \cup SkillTools
    /\ UNCHANGED <<history, activeSkill, yolo, pc, tool_calls, idx, aborted, listeners,
                   outcome, started, executed, declined, failedCalls, nextId, turns,
                   chatResult, advertised, skipped, unparsed>>
    /\ UNCHANGED <<rpcVars, shellVars, mcpVars, usageVars>>

\* lines 387-443: the user message, a fresh controller, the key listener, the first call
UserInput ==
    /\ pc = "idle"
    /\ turns < MaxTurns
    /\ turns' = turns + 1
    /\ history' = Append(history, Msg("user", 0, <<>>, "text"))
    /\ aborted' = FALSE
    /\ listeners' = listeners + 1
    /\ pc' = "chat"
    /\ outcome' = "none"
    /\ chatResult' = "pending"
    /\ advertised' = {tools}
    /\ UNCHANGED <<tools, activeSkill, yolo, skillsReady, tool_calls, idx, started, executed,
                   declined, failedCalls, nextId, skipped, unparsed>>
    /\ UNCHANGED <<rpcVars, shellVars, mcpVars, usageVars>>

\* the keypress listener (lines 422-426), while the loop waits for the model or a tool
Escape ==
    /\ pc \in {"chat", "exec"}
    /\ listeners > 0
    /\ ~aborted
    /\ aborted' = TRUE
    /\ UNCHANGED <<history, tools, activeSkill, yolo, skillsReady, pc, tool_calls, idx,
                   listeners, outcome, started, executed, declined, failedCalls, nextId,
                   turns, chatResult, advertised, skipped, unparsed>>
    /\ UNCHANGED <<rpcVars, shellVars, mcpVars, usageVars>>

\* modelClient.chat resolves with tool calls (lines 446-543)
ChatReturnsToolCalls ==
    /\ pc = "chat"
    /\ \E shapes \in Batches :
         /\ nextId + Len(shapes) - 1 <= MaxCallIds
         /\ LET calls == WithIds(shapes, nextId)
            IN  /\ nextId' = nextId + Len(shapes)
                /\ IF aborted
                   THEN Continue(Finish(history, started, failedCalls, listeners,
                                        "cancelled"), calls)
                   ELSE Continue(RunFor(calls, Append(history, AssistantCallMsg(calls)), 1,
                                        started, failedCalls, listeners, aborted,
                                        activeSkill), calls)
                /\ Awaits("tool_calls")
    /\ UNCHANGED <<tools, activeSkill, yolo, skillsReady, aborted, declined, turns>>
    /\ UNCHANGED <<rpcVars, shellVars, mcpVars, usageVars>>

\* modelClient.chat resolves without tool calls (lines 560-590); full: the usage
\* calculateUsage reports for the new history is at least 80 percent
ChatReturnsFinal ==
    /\ pc = "chat"
    /\ \E content \in {"text", "empty"}, full \in BOOLEAN :
         IF content = "empty"
         THEN Continue(Finish(history, started, failedCalls, listeners, "final"), <<>>)
         ELSE LET h == Append(history, Msg("assistant", 0, <<>>, content))
              IN  IF full
                  THEN Continue(Suspend("compactPrompt", h), <<>>)
                  ELSE Continue(Finish(h, started, failedCalls, listeners, "final"), <<>>)
    /\ Awaits("final")
    /\ UNCHANGED <<tools, activeSkill, yolo, skillsReady, aborted, declined, nextId, turns>>
    /\ UNCHANGED <<rpcVars, shellVars, mcpVars, usageVars>>

\* mutant: a rejected call is made again
ChatFails_Retries ==
    /\ pc = "chat"
    /\ chatResult = "pending"
    /\ chatResult' = "rejected"
    /\ UNCHANGED <<history, tools, activeSkill, yolo, skillsReady, pc, tool_calls, idx, aborted,
                   listeners, outcome, started, executed, declined, failedCalls, nextId, turns,
                   advertised, skipped, unparsed>>
    /\ UNCHANGED <<rpcVars, shellVars, mcpVars, usageVars>>

\* modelClient.chat rejects (lines 591-598)
ChatFails ==
    /\ pc = "chat"
    /\ Continue(Finish(history, started, failedCalls, listeners, "failed"), <<>>)
    /\ Awaits("rejected")
    /\ UNCHANGED <<tools, activeSkill, yolo, skillsReady, aborted, declined, nextId, turns>>
    /\ UNCHANGED <<rpcVars, shellVars, mcpVars, usageVars>>

\* inquirer.prompt of line 485 resolves (lines 494-515, then the rest of the loop)
PromptAnswer ==
    /\ pc = "prompt"
    /\ \E confirm \in BOOLEAN :
         LET call == tool_calls[idx]
             ls == listeners + 1
         IN  IF ~confirm
             THEN /\ declined' = declined \cup {call.id}
                  /\ Continue(Declined(tool_calls, history, idx, started, failedCalls, ls,
                                       aborted, activeSkill), tool_calls)
             ELSE /\ declined' = declined
                  /\ Continue(Dispatch(tool_calls, history, idx, started, failedCalls, ls,
                                       aborted, activeSkill), tool_calls)
    /\ Awaits(chatResult)
    /\ UNCHANGED <<tools, activeSkill, yolo, skillsReady, aborted, nextId, turns>>
    /\ UNCHANGED <<rpcVars, shellVars, mcpVars, usageVars>>

\* inquirer.prompt of line 485 rejects: the exception reaches the catch of line 591
PromptThrows ==
    /\ pc = "prompt"
    /\ Continue(Finish(history, started, failedCalls, listeners, "failed"), tool_calls)
    /\ Awaits(chatResult)
    /\ UNCHANGED <<tools, activeSkill, yolo, skillsReady, aborted, declined, nextId, turns>>
    /\ UNCHANGED <<rpcVars, shellVars, mcpVars, usageVars>>

\* the content of the tool message after tool.execute settled (lines 525-528)
ExecContent(out) == IF out = "ok" THEN "result" ELSE "error_exec"

\* tool.execute settles (lines 525-542, then the rest of the loop); a load_skill
\* that succeeded has called the callback of line 115
ExecReturns ==
    /\ pc = "exec"
    /\ \E out \in {"ok", "throw"} :
         LET call == tool_calls[idx]
             fc == IF out = "throw" THEN failedCalls \cup {call.id} ELSE failedCalls
             sk == IF call.name = "load_skill" /\ out = "ok" THEN SkillName ELSE activeSkill
         IN  /\ activeSkill' = sk
             /\ Continue(RunFor(tool_calls, Append(history, ToolMsg(call, ExecContent(out))),
                                idx + 1, started, fc, listeners, aborted, sk), tool_calls)
    /\ Awaits(chatResult)
    /\ UNCHANGED <<tools, yolo, skillsReady, aborted, declined, nextId, turns>>
    /\ UNCHANGED <<rpcVars, shellVars, mcpVars, usageVars>>

\* promptIfCompactNeeded (lines 86-123): the user answers the compaction questions
CompactAnswer ==
    /\ pc = "compactPrompt"
    /\ \E shouldCompact \in BOOLEAN :
         IF shouldCompact
         THEN Continue(Suspend("compactChat", history), <<>>)
         ELSE Continue(Finish(history, started, failedCalls, listeners, "final"), <<>>)
    /\ Awaits(chatResult)
    /\ UNCHANGED <<tools, activeSkill, yolo, skillsReady, aborted, declined, nextId, turns>>
    /\ UNCHANGED <<rpcVars, shellVars, mcpVars, usageVars>>

\* compact: the summarisation call settles (lines 58-80), handleChat assigns the result
CompactReturns ==
    /\ pc = "compactChat"
    /\ \E ok \in BOOLEAN :
         /\ Continue(Finish(IF ok THEN compact(history) ELSE history, started, failedCalls,
                            listeners, "final"), <<>>)
         /\ chatResult' = IF ok THEN "summary" ELSE "summary_rejected"
    /\ UNCHANGED <<tools, activeSkill, yolo, skillsReady, aborted, declined, nextId, turns,
                   advertised>>
    /\ UNCHANGED <<rpcVars, shellVars, mcpVars, usageVars>>

LoopNext ==
    \/ SkillsInitialized
    \/ UserInput
    \/ Escape
    \/ ChatReturnsToolCalls
    \/ ChatReturnsFinal
    \/ ChatFails
    \/ PromptAnswer
    \/ PromptThrows
    \/ ExecReturns
    \/ CompactAnswer
    \/ CompactReturns


(***************************************************************************)
(* JsonRpcClient: one RPC session                                          *)
(***************************************************************************)
\* requests issued on the session
MaxRequests == 2
\* lines the child writes to its stdout
MaxLines == 3

RpcInit ==
    /\ sequence = 0
    /\ pendingRequests = <<>>
    /\ killed = FALSE
    /\ rpcWire = <<>>
    /\ promises = <<>>
    /\ received = <<>>

\* the lines the child process can write: a response (a line with an id and a result
\* or an error) for an id issued or not, a notification, text that is not JSON, a
\* blank line
ResponseLines == [kind : {"response"}, id : 0..MaxRequests, error : BOOLEAN]
OtherLines == {[kind |-> k, id |-> -1, error |-> FALSE] : k \in {"notification", "garbage", "blank"}}
Lines == ResponseLines \cup OtherLines

\* line 49: the message is a response
IsResponse(line) == line.kind = "response"

\* mutant: a response is handed to the oldest pending request, whatever its id
GetHandler_Oldest(pending, id) ==
    IF DOMAIN pending = {} THEN 0
    ELSE pending[CHOOSE k \in DOMAIN pending : \A m \in DOMAIN pending : k <= m]

\* pendingRequests.get(message.id) (line 50): 0 stands for undefined
GetHandler(pending, id) == IF id \in DOMAIN pending THEN pending[id] ELSE 0

\* mutant: the entry stays in the map
DeleteHandler_Keeps(pending, id) == pending

\* pendingRequests.delete(message.id) (lines 52 and 84)
DeleteHandler(pending, id) == [k \in DOMAIN pending \ {id} |-> pending[k]]

\* pendingRequests.set(id, handlers) (line 78)
SetHandler(pending, id, p) == [k \in DOMAIN pending \cup {id} |-> IF k = id THEN p ELSE pending[k]]

\* handler.resolve / handler.reject on promise p, called for line number n
Settle(ps, p, status, n) ==
    [ps EXCEPT ![p].status = IF @ = "pending" THEN status ELSE @,
               ![p].by = IF ps[p].status = "pending" THEN n ELSE @,
               ![p].settles = @ + 1]

\* a message on the child's stdin
Written(id, method) == [id |-> id, method |-> method, at |-> Len(received)]

\* the body of sendRequest (lines 68-88) for one method; writeOk: stdin is there and
\* write did not throw
SendRequest(method, writeOk) ==
    LET id == sequence
        p == Len(promises) + 1
        fresh == [id |-> id, status |-> "pending", by |-> 0, settles |-> 0,
                  sentAt |-> Len(received), written |-> writeOk]
    IN  /\ sequence' = sequence + 1
        /\ IF writeOk
           THEN /\ pendingRequests' = SetHandler(pendingRequests, id, p)
                /\ rpcWire' = Append(rpcWire, Written(id, method))
                /\ promises' = Append(promises, fresh)
           ELSE /\ pendingRequests' = DeleteHandler(SetHandler(pendingRequests, id, p), id)
                /\ rpcWire' = rpcWire
                /\ promises' = Settle(Append(promises, fresh), p, "rejected", 0)

\* sendRequest called on the session by any caller (McpClient.callTool, lines 36-41)
sendRequest ==
    /\ ~killed
    /\ Len(promises) < MaxRequests
    /\ \E writeOk \in BOOLEAN : SendRequest("tools/call", writeOk)
    /\ UNCHANGED <<killed, received>>
    /\ UNCHANGED <<loopVars, shellVars, mcpVars, usageVars>>

\* handleMessage (lines 43-66) for one line of the child's stdout
handleMessage ==
    /\ Len(received) < MaxLines
    /\ \E line \in Lines :
         LET n == Len(received) + 1
             handler == GetHandler(pendingRequests, line.id)
         IN  /\ received' = Append(received, IF IsResponse(line) THEN line.id ELSE -1)
             /\ IF IsResponse(line) /\ handler # 0
                THEN /\ pendingRequests' = DeleteHandler(pendingRequests, line.id)
                     /\ promises' = Settle(promises, handler,
                                           IF line.error THEN "rejected" ELSE "resolved", n)
                ELSE UNCHANGED <<pendingRequests, promises>>
    /\ UNCHANGED <<sequence, killed, rpcWire>>
    /\ UNCHANGED <<loopVars, shellVars, mcpVars, usageVars>>

\* disconnect (lines 100-102)
disconnect ==
    /\ ~killed
    /\ killed' = TRUE
    /\ UNCHANGED <<sequence, pendingRequests, rpcWire, promises, received>>
    /\ UNCHANGED <<loopVars, shellVars, mcpVars, usageVars>>

RpcNext ==
    \/ sendRequest
    \/ handleMessage
    \/ disconnect

(***************************************************************************)
(* McpClient and handleMcpCommand('connect'): the handshake of a session     *)
(***************************************************************************)
\* the tools the server of the session announces
McpTools == {"mcp_tool"}

\* content blocks in one tools/call result
MaxBlocks == 2

\* a content block: with a text payload (a string, here a sequence of characters) or
\* without one (an image, a resource)
Blocks ==
    {[hasText |-> TRUE, text |-> <<"a">>], [hasText |-> TRUE, text |-> <<"b">>],
     [hasText |-> FALSE, text |-> <<>>]}

\* the results a server can send for tools/call: isError, and content an array of
\* blocks or no array at all
CallResults ==
    [isError : BOOLEAN, isArray : {TRUE}, content : UNION {[1..n -> Blocks] : n \in 0..MaxBlocks}]
        \cup [isError : BOOLEAN, isArray : {FALSE}, content : {<<>>}]

NoResult == [isError |-> FALSE, isArray |-> FALSE, content |-> <<>>]

\* c.text as Array.prototype.join sees it: undefined becomes the empty string
TextOfBlock(c) == IF c.hasText THEN c.text ELSE <<>>

\* content.map(c => c.text).join('\n') (line 70)
RECURSIVE JoinTexts(_)
JoinTexts(content) ==
    IF content = <<>> THEN <<>>
    ELSE IF Len(content) = 1 THEN TextOfBlock(content[1])
    ELSE TextOfBlock(content[1]) \o <<"\n">> \o JoinTexts(Tail(content))

\* McpToolAdapter.execute after callTool resolved with result (lines 63-73)
AdapterResult(result) ==
    IF result.isError
    THEN [status |-> "threw", result |-> result, value |-> <<"MCP Tool Error">>]
    ELSE IF result.isArray
    THEN [status |-> "returned", result |-> result, value |-> JoinTexts(result.content)]
    ELSE [status |-> "returned", result |-> result, value |-> <<"JSON.stringify(result)">>]

McpInit ==
    /\ mcpPc = "none"
    /\ mcpClients = 0
    /\ adapterCall = [status |-> "none", result |-> NoResult, value |-> <<>>]

\* mutant: tools/list is written together with initialize, without awaiting it
McpConnect_Pipelined ==
    /\ mcpPc = "none"
    /\ sequence' = sequence + 2
    /\ pendingRequests' = SetHandler(SetHandler(pendingRequests, sequence, 1), sequence + 1, 2)
    /\ rpcWire' = <<Written(sequence, "initialize"), Written(sequence + 1, "tools/list")>>
    /\ promises' = <<[id |-> sequence, status |-> "pending", by |-> 0, settles |-> 0,
                      sentAt |-> Len(received), written |-> TRUE],
                     [id |-> sequence + 1, status |-> "pending", by |-> 0, settles |-> 0,
                      sentAt |-> Len(received), written |-> TRUE]>>
    /\ mcpPc' = "listTools"
    /\ UNCHANGED <<killed, received, mcpClients, adapterCall>>
    /\ UNCHANGED <<loopVars, shellVars, usageVars>>

\* /mcp connect (ReplManager lines 905-907): a new client, initialize() up to its
\* await (McpClient lines 12-20); a write that throws rejects the request, and the
\* catch of line 917 reports the failure
McpConnect ==
    /\ mcpPc = "none"
    /\ \E writeOk \in BOOLEAN :
         /\ SendRequest("initialize", writeOk)
         /\ mcpPc' = IF writeOk THEN "initialize" ELSE "failed"
    /\ UNCHANGED <<killed, received, mcpClients, adapterCall>>
    /\ UNCHANGED <<loopVars, shellVars, usageVars>>

\* the await of McpClient line 13 is over: a rejection reaches the catch of line 917;
\* a result without serverInfo makes line 22 throw; else the notification is written
\* (line 25) and listTools sends its request (line 30)
InitializeReturns ==
    /\ mcpPc = "initialize"
    /\ promises[1].status # "pending"
    /\ \E hasServerInfo \in BOOLEAN, writeOk \in BOOLEAN :
         IF promises[1].status = "resolved" /\ hasServerInfo
         THEN LET id == sequence
                  fresh == [id |-> id, status |-> "pending", by |-> 0, settles |-> 0,
                            sentAt |-> Len(received), written |-> writeOk]
                  notified == Append(rpcWire, Written(-1, "notifications/initialized"))
              IN  /\ sequence' = sequence + 1
                  /\ IF writeOk
                     THEN /\ pendingRequests' = SetHandler(pendingRequests, id, 2)
                          /\ rpcWire' = Append(notified, Written(id, "tools/list"))
                          /\ promises' = Append(promises, fresh)
                          /\ mcpPc' = "listTools"
                     ELSE /\ pendingRequests' = pendingRequests
                          /\ rpcWire' = notified
                          /\ promises' = Settle(Append(promises, fresh), 2, "rejected", 0)
                          /\ mcpPc' = "failed"
         ELSE /\ mcpPc' = "failed"
              /\ UNCHANGED <<sequence, pendingRequests, rpcWire, promises>>
    /\ UNCHANGED <<killed, received, mcpClients, adapterCall>>
    /\ UNCHANGED <<loopVars, shellVars, usageVars>>

\* the await of ReplManager line 908 is over: the adapters of the announced tools are
\* pushed to this.tools and the client to this.mcpClients (lines 910-911), or the
\* catch of line 917 reports the failure
ListToolsReturns ==
    /\ mcpPc = "listTools"
    /\ Len(promises) >= 2
    /\ promises[2].status # "pending"
    /\ IF promises[2].status = "resolved"
       THEN /\ mcpPc' = "connected"
            /\ mcpClients' = mcpClients + 1
            /\ \E announced \in SUBSET McpTools : tools' = tools \cup announced
       ELSE /\ mcpPc' = "failed"
            /\ UNCHANGED <<mcpClients, tools>>
    /\ UNCHANGED adapterCall
    /\ UNCHANGED <<history, activeSkill, yolo, skillsReady, pc, tool_calls, idx, aborted,
                   listeners, outcome, started, executed, declined, failedCalls, nextId,
                   turns, chatResult, advertised, skipped, unparsed>>
    /\ UNCHANGED <<rpcVars, shellVars, usageVars>>

\* McpToolAdapter.execute (lines 61-62) up to its await: callTool sends tools/call
AdapterExecute ==
    /\ mcpPc = "connected"
    /\ tools \cap McpTools # {}
    /\ ~killed
    /\ adapterCall.status = "none"
    /\ \E writeOk \in BOOLEAN : SendRequest("tools/call", writeOk)
    /\ adapterCall' = [adapterCall EXCEPT !.status = "pending"]
    /\ UNCHANGED <<killed, received, mcpPc, mcpClients>>
    /\ UNCHANGED <<loopVars, shellVars, usageVars>>

\* the await of line 62 is over: a rejected request makes execute throw that error,
\* a resolved one hands the result the server sent to lines 63-73
AdapterReturns ==
    /\ adapterCall.status = "pending"
    /\ promises[Len(promises)].status # "pending"
    /\ IF promises[Len(promises)].status = "rejected"
       THEN adapterCall' = [status |-> "threw", result |-> NoResult, value |-> <<"rpc error">>]
       ELSE \E result \in CallResults : adapterCall' = AdapterResult(result)
    /\ UNCHANGED <<mcpPc, mcpClients>>
    /\ UNCHANGED <<loopVars, rpcVars, shellVars, usageVars>>

\* mutant: only the tools of the sessions are taken out of the registry
McpDisconnect_KeepsSkillTools ==
    /\ mcpPc \in {"none", "connected", "failed", "closed"}
    /\ adapterCall.status # "pending"
    /\ killed' = (killed \/ mcpClients > 0)
    /\ mcpClients' = 0
    /\ tools' = tools \ McpTools
    /\ mcpPc' = "closed"
    /\ UNCHANGED <<sequence, pendingRequests, rpcWire, promises, received, adapterCall>>
    /\ UNCHANGED <<history, activeSkill, yolo, skillsReady, pc, tool_calls, idx, aborted,
                   listeners, outcome, started, executed, declined, failedCalls, nextId,
                   turns, chatResult, advertised, skipped, unparsed>>
    /\ UNCHANGED <<shellVars, usageVars>>

\* /mcp disconnect (ReplManager lines 930-948), read by the REPL between two turns
\* and not while /mcp connect is awaited: disconnect() kills the process of every
\* listed client (JsonRpcClient lines 100-102), the list is emptied and this.tools is
\* assigned a new array of the eleven built-in tools
McpDisconnect ==
    /\ mcpPc \in {"none", "connected", "failed", "closed"}
    /\ adapterCall.status # "pending"
    /\ killed' = (killed \/ mcpClients > 0)
    /\ mcpClients' = 0
    /\ tools' = BuiltinTools
    /\ mcpPc' = "closed"
    /\ UNCHANGED <<sequence, pendingRequests, rpcWire, promises, received, adapterCall>>
    /\ UNCHANGED <<history, activeSkill, yolo, skillsReady, pc, tool_calls, idx, aborted,
                   listeners, outcome, started, executed, declined, failedCalls, nextId,
                   turns, chatResult, advertised, skipped, unparsed>>
    /\ UNCHANGED <<shellVars, usageVars>>

McpNext ==
    \/ McpConnect
    \/ handleMessage
    \/ InitializeReturns
    \/ ListToolsReturns
    \/ AdapterExecute
    \/ AdapterReturns
    \/ McpDisconnect
    \/ SkillsInitialized

(***************************************************************************)
(* PersistentShell and PersistentShellTool                                 *)
(***************************************************************************)
\* execute calls made on the shell
MaxCommands == 2

\* a piece of output: text of a command, a line end, or the delimiter its echo wrote;
\* cmd names the command that produced it (the program sees only kind)
Token(c, k) == [cmd |-> c, kind |-> k]

ShellInit ==
    /\ buffer = <<>>
    /\ resolveCallback = 0
    /\ rejectCallback = 0
    /\ shellStdin = <<>>
    /\ ran = 0
    /\ stdoutPipe = <<>>
    /\ stderrPipe = <<>>
    /\ alive = TRUE
    /\ commands = <<>>

\* this.buffer.includes(this.delimiter) (line 37)
IncludesDelimiter(buf) == \E k \in 1..Len(buf) : buf[k].kind = "delim"

\* String.replace(delimiter, ''): removes the first occurrence only
ReplaceDelimiter(buf) ==
    IF ~IncludesDelimiter(buf) THEN buf
    ELSE LET k == CHOOSE k \in 1..Len(buf) :
                      /\ buf[k].kind = "delim"
                      /\ \A m \in 1..(k - 1) : buf[m].kind # "delim"
         IN  SubSeq(buf, 1, k - 1) \o SubSeq(buf, k + 1, Len(buf))

\* String.trim(): drops the white space at both ends
RECURSIVE TrimStart(_)
TrimStart(t) == IF t # <<>> /\ Head(t).kind = "nl" THEN TrimStart(Tail(t)) ELSE t
RECURSIVE TrimEnd(_)
TrimEnd(t) ==
    IF t # <<>> /\ t[Len(t)].kind = "nl" THEN TrimEnd(SubSeq(t, 1, Len(t) - 1)) ELSE t
\* mutant: only the white space at the start is dropped
Trim_StartOnly(t) == TrimStart(t)

Trim(t) == TrimEnd(TrimStart(t))

\* the command of the first delimiter in buf (observation)
FirstDelimiterOf(buf) ==
    buf[CHOOSE k \in 1..Len(buf) :
            /\ buf[k].kind = "delim"
            /\ \A m \in 1..(k - 1) : buf[m].kind # "delim"].cmd

\* mutant: execute does not look at the outstanding command
IsBusy_Never(cb) == FALSE

\* line 52: a command is outstanding
IsBusy(cb) == cb # 0

\* execute (lines 51-69), the c-th call on the session
execute ==
    /\ Len(commands) < MaxCommands
    /\ LET c == Len(commands) + 1
       IN  IF IsBusy(resolveCallback)
           THEN /\ commands' = Append(commands, [status |-> "rejected", value |-> <<>>,
                                                 resolves |-> 0, byDelimiter |-> 0,
                                                 live |-> alive])
                /\ UNCHANGED <<buffer, resolveCallback, rejectCallback, shellStdin>>
           ELSE /\ commands' = Append(commands, [status |-> "pending", value |-> <<>>,
                                                 resolves |-> 0, byDelimiter |-> 0,
                                                 live |-> alive])
                /\ resolveCallback' = c
                /\ rejectCallback' = c
                /\ buffer' = <<>>
                /\ shellStdin' = Append(shellStdin, c)
    /\ UNCHANGED <<ran, stdoutPipe, stderrPipe, alive>>
    /\ UNCHANGED <<loopVars, rpcVars, mcpVars, usageVars>>

\* the shell runs the next line of its stdin, "<command>; echo <delimiter>": the
\* command writes text to stdout and to stderr or not, then echo writes the delimiter
ShellRuns ==
    /\ alive
    /\ ran < Len(shellStdin)
    /\ \E toOut \in BOOLEAN, toErr \in BOOLEAN :
         LET c == shellStdin[ran + 1]
             text == <<Token(c, "text"), Token(c, "nl")>>
         IN  /\ stdoutPipe' = stdoutPipe \o (IF toOut THEN text ELSE <<>>)
                                         \o <<Token(c, "delim"), Token(c, "nl")>>
             /\ stderrPipe' = stderrPipe \o (IF toErr THEN text ELSE <<>>)
    /\ ran' = ran + 1
    /\ UNCHANGED <<buffer, resolveCallback, rejectCallback, shellStdin, alive, commands>>
    /\ UNCHANGED <<loopVars, rpcVars, mcpVars, usageVars>>

\* mutant: any data event resolves the outstanding command
handleOutput_ResolvesOnAnyData(chunk) ==
    /\ buffer' = <<>>
    /\ IF resolveCallback # 0
       THEN /\ commands' = [commands EXCEPT
                              ![resolveCallback].status = "resolved",
                              ![resolveCallback].value = Trim(ReplaceDelimiter(buffer \o chunk)),
                              ![resolveCallback].resolves = @ + 1]
            /\ resolveCallback' = 0
            /\ rejectCallback' = 0
       ELSE UNCHANGED <<commands, resolveCallback, rejectCallback>>

\* handleOutput (lines 33-49) for one data event carrying chunk
handleOutput(chunk) ==
    LET buf == buffer \o chunk
    IN  IF IncludesDelimiter(buf)
        THEN /\ buffer' = <<>>
             /\ IF resolveCallback # 0
                THEN /\ commands' = [commands EXCEPT
                                       ![resolveCallback].status = "resolved",
                                       ![resolveCallback].value = Trim(ReplaceDelimiter(buf)),
                                       ![resolveCallback].resolves = @ + 1,
                                       ![resolveCallback].byDelimiter = FirstDelimiterOf(buf)]
                     /\ resolveCallback' = 0
                     /\ rejectCallback' = 0
                ELSE UNCHANGED <<commands, resolveCallback, rejectCallback>>
        ELSE /\ buffer' = buf
             /\ UNCHANGED <<commands, resolveCallback, rejectCallback>>

\* a data event of process.stdout (line 19): some of what the pipe holds
StdoutData ==
    /\ \E n \in 1..Len(stdoutPipe) :
         /\ handleOutput(SubSeq(stdoutPipe, 1, n))
         /\ stdoutPipe' = SubSeq(stdoutPipe, n + 1, Len(stdoutPipe))
    /\ UNCHANGED <<shellStdin, ran, stderrPipe, alive>>
    /\ UNCHANGED <<loopVars, rpcVars, mcpVars, usageVars>>

\* a data event of process.stderr (line 20)
StderrData ==
    /\ \E n \in 1..Len(stderrPipe) :
         /\ handleOutput(SubSeq(stderrPipe, 1, n))
         /\ stderrPipe' = SubSeq(stderrPipe, n + 1, Len(stderrPipe))
    /\ UNCHANGED <<shellStdin, ran, stdoutPipe, alive>>
    /\ UNCHANGED <<loopVars, rpcVars, mcpVars, usageVars>>

\* kill (lines 71-73): the REPL ends the shell (/exit); nothing else is touched
kill ==
    /\ alive
    /\ alive' = FALSE
    /\ UNCHANGED <<buffer, resolveCallback, rejectCallback, shellStdin, ran, stdoutPipe,
                   stderrPipe, commands>>
    /\ UNCHANGED <<loopVars, rpcVars, mcpVars, usageVars>>

\* the shell process exits by itself; the exit handler (lines 26-30) only warns
ShellExits ==
    /\ alive
    /\ alive' = FALSE
    /\ UNCHANGED <<buffer, resolveCallback, rejectCallback, shellStdin, ran, stdoutPipe,
                   stderrPipe, commands>>
    /\ UNCHANGED <<loopVars, rpcVars, mcpVars, usageVars>>

\* PersistentShellTool.execute (lines 24-31): what run_shell returns for a settled call
PersistentShellToolResult(cmd) ==
    IF cmd.status = "rejected"
    THEN [kind |-> "string", text |-> <<"Error executing command: ", "Shell is busy">>]
    ELSE IF cmd.value = <<>>
    THEN [kind |-> "string", text |-> <<"Command executed with no output.">>]
    ELSE [kind |-> "string", text |-> cmd.value]

ShellNext ==
    \/ execute
    \/ ShellRuns
    \/ StdoutData
    \/ StderrData
    \/ ShellExits
    \/ kill

(***************************************************************************)
(* ContextVisualizer.calculateUsage and shouldCompact                      *)
(*                                                                         *)
(* JavaScript numbers are IEEE 754 doubles: tokens / maxTokens and the     *)
(* product with 100 are each rounded to 53 significant bits (to nearest,   *)
(* ties to even).  A positive double is a record [top, mid, low, e]: its    *)
(* 53 significant bits are the integer m = top * 2^36 + mid * 2^18 + low,  *)
(* 2^52 <= m < 2^53, and its value is m * 2^(e - 52).                      *)
(***************************************************************************)
\* messages in a measured history
MaxMessages == 2

\* this.maxTokens (line 224)
maxTokens == 128000

\* significant bits of a double
Precision == 53

RECURSIVE Pow2(_)
Pow2(n) == IF n = 0 THEN 1 ELSE 2 * Pow2(n - 1)

\* 2^e <= a / b, for 0 < a, 0 < b
AtLeastPow2(a, b, e) == IF e >= 0 THEN a >= b * Pow2(e) ELSE a * Pow2(-e) >= b

\* the e with 2^e <= a / b < 2^(e + 1), searched downwards from e
RECURSIVE ExponentFrom(_, _, _)
ExponentFrom(a, b, e) == IF AtLeastPow2(a, b, e) THEN e ELSE ExponentFrom(a, b, e - 1)
ExponentOf(a, b) == ExponentFrom(a, b, 8)

\* the binary digits of num / den, num / den in [1, 2): the leading 1 and n further
\* digits, with the remainder left after them; r is the remainder so far and acc the
\* digits so far
RECURSIVE QuotientBits(_, _, _, _)
QuotientBits(r, den, n, acc) ==
    IF n = 0 THEN [bits |-> acc, rest |-> r]
    ELSE IF 2 * r >= den THEN QuotientBits(2 * r - den, den, n - 1, Append(acc, 1))
    ELSE QuotientBits(2 * r, den, n - 1, Append(acc, 0))

\* the integer a digit sequence stands for (short sequences only)
RECURSIVE BitsToInt(_)
BitsToInt(bits) ==
    IF bits = <<>> THEN 0 ELSE 2 * BitsToInt(SubSeq(bits, 1, Len(bits) - 1)) + bits[Len(bits)]

\* the 53 significant digits are kept in three limbs: top the first 17 digits, mid the
\* next 18, low the last 18
Limb == Pow2(18)

\* the double with the significant digits top, mid, low plus one unit in the last
\* place when up holds; a carry out of the top limb makes it the next power of two
Rounded(top, mid, low, e, up) ==
    LET l == low + (IF up THEN 1 ELSE 0)
        m == mid + (l \div Limb)
        t == top + (m \div Limb)
    IN  IF t >= Pow2(17)
        THEN [top |-> Pow2(16), mid |-> 0, low |-> 0, e |-> e + 1]
        ELSE [top |-> t, mid |-> m % Limb, low |-> l % Limb, e |-> e]

\* the double a / b for integers 0 < a, 0 < b (the operator / of line 262): 53 digits
\* of the quotient, rounded to nearest by the digit after them and the remainder,
\* ties to even
Divide(a, b) ==
    LET e == ExponentOf(a, b)
        num == IF e < 0 THEN a * Pow2(-e) ELSE a
        den == IF e < 0 THEN b ELSE b * Pow2(e)
        q == QuotientBits(num - den, den, Precision, <<1>>)
        low == BitsToInt(SubSeq(q.bits, 36, 53))
        guard == q.bits[Precision + 1]
    IN  Rounded(BitsToInt(SubSeq(q.bits, 1, 17)), BitsToInt(SubSeq(q.bits, 18, 35)), low, e,
                guard = 1 /\ (q.rest # 0 \/ (low % 2) = 1))

\* the double x * 100 (line 262): the exact product has 59 or 60 digits, of which the
\* last d = 6 or 7 are rounded away, to nearest, ties to even
TimesHundred(x) ==
    LET p3 == x.low * 100
        p2 == (x.mid * 100) + (p3 \div Limb)
        p1 == (x.top * 100) + (p2 \div Limb)
        r3 == p3 % Limb
        r2 == p2 % Limb
        d == IF p1 < Pow2(23) THEN 6 ELSE 7
        low == (r3 \div Pow2(d)) + ((r2 % Pow2(d)) * Pow2(18 - d))
        mid == (r2 \div Pow2(d)) + ((p1 % Pow2(d)) * Pow2(18 - d))
        away == r3 % Pow2(d)
        half == Pow2(d - 1)
    IN  Rounded(p1 \div Pow2(d), mid, low, x.e + d,
                away > half \/ (away = half /\ (low % 2) = 1))

\* Math.round of a positive double below 2^16: the integer part, plus one when the
\* fraction is at least one half
MathRound(x) ==
    IF x.e < -1 THEN 0
    ELSE IF x.e = -1 THEN 1
    ELSE (x.top \div Pow2(16 - x.e)) + ((x.top \div Pow2(15 - x.e)) % 2)

\* Math.ceil(totalChars / 4) (line 261): the division by 4 is exact in a double
CeilQuarter(totalChars) == (totalChars + 3) \div 4

\* totalChars of lines 246-258
RECURSIVE TotalChars(_)
TotalChars(h) ==
    IF h = <<>> THEN 2000 ELSE h[1].content + h[1].calls + TotalChars(Tail(h))

\* calculateUsage (lines 245-265)
calculateUsage(h) ==
    LET tokens == CeilQuarter(TotalChars(h))
        rounded == MathRound(TimesHundred(Divide(tokens, maxTokens)))
    IN  [tokens |-> tokens, percentage |-> IF rounded < 100 THEN rounded ELSE 100,
         maxTokens |-> maxTokens]

\* shouldCompact (lines 303-306)
shouldCompact(h) == calculateUsage(h).percentage >= 80

\* the lengths of message contents: none, a short text, and texts that bring one
\* message to 18560 tokens (14.5 percent), just below and to 101760 tokens (79.5
\* percent), and beyond the context window
ContentLengths == {0, 13, 72240, 405036, 405040, 600000}

\* the lengths of JSON.stringify(tool_calls): no tool_calls, one call
CallLengths == {0, 120}

UsageInit ==
    /\ measured = <<>>
    /\ usage = calculateUsage(<<>>)

\* a message is pushed and the REPL measures the history (lines 238, 574, 581)
PushMessage ==
    /\ Len(measured) < MaxMessages
    /\ \E c \in ContentLengths, t \in CallLengths :
         /\ measured' = Append(measured, [content |-> c, calls |-> t])
         /\ usage' = calculateUsage(measured')
    /\ UNCHANGED <<loopVars, rpcVars, shellVars, mcpVars>>

\* /clear empties the history (lines 332-337); the next frame measures it (line 238)
ClearHistory ==
    /\ measured # <<>>
    /\ measured' = <<>>
    /\ usage' = calculateUsage(measured')
    /\ UNCHANGED <<loopVars, rpcVars, shellVars, mcpVars>>

UsageNext ==
    \/ PushMessage
    \/ ClearHistory

(***************************************************************************)
(* The specifications: each component runs with the others at rest.        *)
(***************************************************************************)
Init == LoopInit /\ RpcInit /\ ShellInit /\ McpInit /\ UsageInit

Next == LoopNext

Spec == Init /\ [][Next]_vars

\* a session on its own: the REPL stays as constructed, without --yolo
InitAtRest == LoopInit /\ ~yolo /\ RpcInit /\ ShellInit /\ McpInit /\ UsageInit

SpecRpc == InitAtRest /\ [][RpcNext]_vars

SpecShell == InitAtRest /\ [][ShellNext]_vars

\* the handshake of a session: /mcp connect and the lines its server writes
SpecMcp == InitAtRest /\ [][McpNext]_vars

\* the context meter on its own
SpecUsage == InitAtRest /\ [][UsageNext]_vars

(***************************************************************************)
(* The agent loop: properties                                              *)
(***************************************************************************)
\* positions of the tool messages that answer call c
ToolMsgsFor(h, c) == {k \in 1..Len(h) : h[k].role = "tool" /\ h[k].tool_call_id = c}

\* the assistant messages of h that record call c
RecordedIn(h, c) ==
    {k \in 1..Len(h) : /\ h[k].role = "assistant"
                       /\ \E m \in 1..Len(h[k].tool_calls) : h[k].tool_calls[m] = c}

\* c and d are calls of one batch
SameBatch(h, c, d) == RecordedIn(h, c) \cap RecordedIn(h, d) # {}

\* C1: when a batch has run to completion (the loop has re-invoked the model for
\* it), the history ends with the assistant message recording the batch followed by
\* one tool message per call, carrying the ids of the calls in order, and no other
\* tool message carries one of these ids, whatever the outcome of each call.
C1_OneToolMessagePerCall ==
    (pc = "chat" /\ tool_calls # <<>>) =>
        LET n == Len(tool_calls)
            L == Len(history)
        IN  /\ L >= n + 1
            /\ history[L - n].role = "assistant"
            /\ Len(history[L - n].tool_calls) = n
            /\ \A k \in 1..n :
                 /\ history[L - n].tool_calls[k] = tool_calls[k].id
                 /\ history[L - n + k].role = "tool"
                 /\ history[L - n + k].tool_call_id = tool_calls[k].id
                 /\ ToolMsgsFor(history, tool_calls[k].id) = {L - n + k}

\* a completed batch of two calls, one declined and one failed
C1_Witness ==
    /\ pc = "chat"
    /\ Len(tool_calls) = 2
    /\ \E k \in 1..2 : tool_calls[k].id \in declined
    /\ \E k \in 1..2 : tool_calls[k].id \in failedCalls

\* C2: every tool message of the history answers a tool call recorded in an
\* assistant message that precedes it.
C2_ToolMessagesAnswerRecordedCalls ==
    \A k \in 1..Len(history) :
        history[k].role = "tool" =>
            \E j \in RecordedIn(history, history[k].tool_call_id) : j < k

\* C3: a declined call gets exactly one tool message, with the rejection text, its
\* execute is never invoked, and the step that handles the answer goes on with the
\* next call of the batch (or, after the last call, with the model).
C3_DeclinedState ==
    \A c \in declined :
        /\ c \notin executed
        /\ \E k \in 1..Len(history) :
             /\ ToolMsgsFor(history, c) = {k}
             /\ history[k].content = "rejected"

C3_DeclineStep ==
    declined' # declined =>
        /\ idx < Len(tool_calls) => tool_calls[idx + 1].id \in started'
        /\ idx = Len(tool_calls) => pc' = "chat"
        /\ tool_calls[idx].id \in declined'
        /\ history'[Len(history) + 1] = Msg("tool", tool_calls[idx].id, <<>>, "rejected")

\* C3 as one formula: the state of every declined call and the step that declines it
C3_DeclineRejectsWithoutExecuting == []C3_DeclinedState /\ [][C3_DeclineStep]_vars

\* a declined call whose successor in the batch was executed
C3_Witness ==
    \E c \in declined : (c + 1) \in executed /\ SameBatch(history, c, c + 1)

\* C4: once Escape was pressed while a call executes, the step that ends the
\* execution ends the turn as cancelled: no further call is started or executed, the
\* model is not invoked, and the history grows by the tool message of the executing
\* call only, everything before it staying as it was.
C4_CancelStep ==
    (aborted /\ pc = "exec") =>
        /\ started' = started
        /\ executed' = executed
        /\ pc' \in {"exec", "idle"}
        /\ pc' = "exec" => history' = history
        /\ pc' = "idle" =>
             /\ outcome' = "cancelled"
             /\ Len(history') = Len(history) + 1
             /\ SubSeq(history', 1, Len(history)) = history
             /\ history'[Len(history')].role = "tool"
             /\ history'[Len(history')].tool_call_id = tool_calls[idx].id

\* C4: every step of the loop satisfies C4_CancelStep
C4_CancelStopsTheBatch == [][C4_CancelStep]_vars

\* a cancelled turn: the last message answers a call whose successor in the batch
\* was never started
C4_Witness ==
    /\ pc = "idle"
    /\ outcome = "cancelled"
    /\ history # <<>>
    /\ LET last == history[Len(history)]
       IN  /\ last.role = "tool"
           /\ SameBatch(history, last.tool_call_id, last.tool_call_id + 1)
           /\ (last.tool_call_id + 1) \notin started

\* C5: the step in which a call fails (its execute throws, or no tool has its name)
\* puts the failure text into the one tool message of that call and does not end the
\* turn for it: unless Escape was pressed, the next call of the batch is started, or,
\* after the last call, the model is invoked again.
C5_FailureStep ==
    \A c \in failedCalls' \ failedCalls :
        /\ \E k \in 1..Len(history') :
             /\ ToolMsgsFor(history', c) = {k}
             /\ history'[k].content \in {"error_exec", "error_notfound"}
        /\ ~aborted =>
             IF SameBatch(history', c, c + 1)
             THEN (c + 1) \in started'
             ELSE pc' = "chat"

\* C5: every step of the loop satisfies C5_FailureStep
C5_FailureBecomesToolMessage == [][C5_FailureStep]_vars

\* a completed batch with a call whose execute threw and a call of an unknown tool
C5_Witness ==
    /\ pc = "chat"
    /\ Len(tool_calls) = 2
    /\ \E k \in 1..Len(history) : history[k].content = "error_exec"
                                  /\ history[k].tool_call_id \in {tool_calls[1].id, tool_calls[2].id}
    /\ \E k \in 1..Len(history) : history[k].content = "error_notfound"
                                  /\ history[k].tool_call_id \in {tool_calls[1].id, tool_calls[2].id}

(***************************************************************************)
(* The RPC session: properties                                             *)
(***************************************************************************)
\* promise p was settled by a response line
SettledByResponse(p) == promises[p].status # "pending" /\ promises[p].by # 0

\* C6: a promise that a response settled was settled by a line whose id is the id of
\* its own request, and a request that was written is settled by nothing else,
\* whatever the order in which the responses arrive.
C6_SettledByOwnResponse ==
    \A p \in 1..Len(promises) :
        /\ SettledByResponse(p) =>
             /\ promises[p].by \in 1..Len(received)
             /\ received[promises[p].by] = promises[p].id
        /\ (promises[p].status # "pending" /\ promises[p].written) => SettledByResponse(p)

\* two requests in flight together, answered in the reverse order
C6_Witness ==
    /\ Len(promises) >= 2
    /\ SettledByResponse(1) /\ SettledByResponse(2)
    /\ promises[2].sentAt < promises[1].by
    /\ promises[2].by < promises[1].by

\* C7: request ids are unique and strictly increasing; the map holds exactly the
\* requests in flight, each under its id; a request is settled once, by the first
\* response with its id that arrives after it was sent, and leaves the map in that
\* step; any other line changes neither the map nor a promise.
C7_MapState ==
    /\ \A p, q \in 1..Len(promises) : p < q => promises[p].id < promises[q].id
    /\ DOMAIN pendingRequests = {promises[p].id : p \in {q \in 1..Len(promises) :
                                                            promises[q].status = "pending"}}
    /\ \A id \in DOMAIN pendingRequests : promises[pendingRequests[id]].id = id
    /\ \A p \in 1..Len(promises) :
         /\ promises[p].settles = IF promises[p].status = "pending" THEN 0 ELSE 1
         /\ SettledByResponse(p) =>
              /\ promises[p].by > promises[p].sentAt
              /\ received[promises[p].by] = promises[p].id
              /\ \A j \in (promises[p].sentAt + 1)..(promises[p].by - 1) :
                   received[j] # promises[p].id
         /\ promises[p].status = "pending" =>
              /\ promises[p].written
              /\ \A j \in (promises[p].sentAt + 1)..Len(received) :
                   received[j] # promises[p].id

C7_LineStep ==
    received' # received =>
        LET id == received'[Len(received')]
        IN  IF id \in DOMAIN pendingRequests
            THEN /\ DOMAIN pendingRequests' = DOMAIN pendingRequests \ {id}
                 /\ \A k \in DOMAIN pendingRequests' : pendingRequests'[k] = pendingRequests[k]
                 /\ \A p \in 1..Len(promises) :
                      IF p = pendingRequests[id]
                      THEN promises'[p].status # "pending" /\ promises'[p].by = Len(received')
                      ELSE promises'[p] = promises[p]
            ELSE pendingRequests' = pendingRequests /\ promises' = promises

\* C7 as one formula: the state of the map and the effect of every line
C7_PendingMapDiscipline == []C7_MapState /\ [][C7_LineStep]_vars

\* a request was settled, a second response with its id arrived later, and a line
\* that is no response was handled as well
C7_Witness ==
    \E p \in 1..Len(promises) :
        /\ SettledByResponse(p)
        /\ \E j \in (promises[p].by + 1)..Len(received) : received[j] = promises[p].id
        /\ \E j \in 1..Len(received) : received[j] = -1

\* C8: after disconnect() no request is pending: the map is empty and every promise
\* is settled.
C8_DisconnectRejectsPending ==
    killed => /\ DOMAIN pendingRequests = {}
              /\ \A p \in 1..Len(promises) : promises[p].status # "pending"

(***************************************************************************)
(* The persistent shell: properties                                        *)
(***************************************************************************)
\* the commands of the tokens of a text
CommandsIn(text) == {text[k].cmd : k \in 1..Len(text)}

\* the commands whose output text (not line ends) a text holds
TextOf(text) == {text[k].cmd : k \in {m \in 1..Len(text) : text[m].kind = "text"}}

Rejected == {c \in 1..Len(commands) : commands[c].status = "rejected"}

\* C9: an execute call made while a command is outstanding is rejected as busy and
\* changes nothing of the session (nothing is written to the shell, the buffer and
\* the callbacks stay); run_shell returns the busy error as a string; the command
\* that was outstanding is resolved once, by its own delimiter, with nothing a
\* rejected call produced.
C9_BusyState ==
    /\ \A c \in Rejected :
         /\ \A k \in 1..Len(shellStdin) : shellStdin[k] # c
         /\ PersistentShellToolResult(commands[c]) =
                [kind |-> "string", text |-> <<"Error executing command: ", "Shell is busy">>]
    /\ \A c \in 1..Len(commands) :
         commands[c].status = "resolved" =>
             /\ commands[c].resolves = 1
             /\ commands[c].byDelimiter = c
             /\ CommandsIn(commands[c].value) \cap Rejected = {}

C9_BusyStep ==
    (Len(commands') > Len(commands) /\ resolveCallback # 0) =>
        /\ commands'[Len(commands')].status = "rejected"
        /\ SubSeq(commands', 1, Len(commands)) = commands
        /\ UNCHANGED <<buffer, resolveCallback, rejectCallback, shellStdin, stdoutPipe, stderrPipe>>

\* C9 as one formula: the state after busy calls and the step of a busy call
C9_BusyCallIsRejectedWithoutEffect == []C9_BusyState /\ [][C9_BusyStep]_vars

\* a call was rejected as busy and the command outstanding then has resolved since
C9_Witness ==
    \E c \in Rejected : \E d \in 1..(c - 1) :
        /\ commands[d].status = "resolved"
        /\ \A e \in (d + 1)..(c - 1) : e \in Rejected

\* C10: when no call was made while a command was outstanding, every resolved
\* command was resolved once, by its own delimiter, and its result holds no text an
\* other command wrote.
C10_OwnOutputOnly ==
    Rejected = {} =>
        \A c \in 1..Len(commands) :
            commands[c].status = "resolved" =>
                /\ commands[c].resolves = 1
                /\ commands[c].byDelimiter = c
                /\ TextOf(commands[c].value) \subseteq {c}

\* the chunk of the data event a step handles (<<>> when the step is no data event)
C11_Chunk ==
    IF Len(stdoutPipe') < Len(stdoutPipe)
    THEN SubSeq(stdoutPipe, 1, Len(stdoutPipe) - Len(stdoutPipe'))
    ELSE IF Len(stderrPipe') < Len(stderrPipe)
    THEN SubSeq(stderrPipe, 1, Len(stderrPipe) - Len(stderrPipe'))
    ELSE <<>>

\* the tokens of a text that are no delimiter, in order
WithoutDelimiter(text) == SelectSeq(text, LAMBDA t : t.kind # "delim")

\* value is text without the white space at its ends
IsTrimmed(value, text) ==
    /\ value # <<>> => value[1].kind # "nl" /\ value[Len(value)].kind # "nl"
    /\ \E a \in 0..Len(text) :
         /\ a + Len(value) <= Len(text)
         /\ SubSeq(text, a + 1, a + Len(value)) = value
         /\ \A k \in (1..a) \cup ((a + Len(value) + 1)..Len(text)) : text[k].kind = "nl"

\* C11: between data events the buffer never holds the delimiter, and a resolved
\* command was resolved once, with a value free of delimiters and of white space at
\* its ends (the empty string when the command wrote nothing).
C11_State ==
    /\ ~IncludesDelimiter(buffer)
    /\ \A c \in 1..Len(commands) :
         commands[c].status = "resolved" =>
             /\ commands[c].resolves = 1
             /\ ~IncludesDelimiter(commands[c].value)
             /\ IsTrimmed(commands[c].value, commands[c].value)

\* C11: a data event after which the accumulated buffer holds the delimiter resolves
\* the outstanding command in that step, with the accumulated text less the delimiter,
\* trimmed, and leaves the buffer empty; any other data event only accumulates, and
\* no other step resolves a command.
C11_DataStep ==
    LET buf == buffer \o C11_Chunk
        c == resolveCallback
    IN  /\ (C11_Chunk # <<>> /\ IncludesDelimiter(buf)) =>
             /\ buffer' = <<>>
             /\ c # 0 =>
                  /\ commands'[c].status = "resolved"
                  /\ IsTrimmed(commands'[c].value, WithoutDelimiter(buf))
                  /\ resolveCallback' = 0
        /\ (C11_Chunk # <<>> /\ ~IncludesDelimiter(buf)) =>
             /\ buffer' = buf
             /\ commands' = commands
             /\ resolveCallback' = resolveCallback
        /\ C11_Chunk = <<>> =>
             \A d \in 1..Len(commands) : commands'[d].status = commands[d].status

\* C11 as one formula: the state between data events and the effect of every step
C11_ResolvesAtTheSentinel == []C11_State /\ [][C11_DataStep]_vars

\* a command that wrote to stdout and to stderr and a command that wrote nothing
\* have both resolved
C11_Witness ==
    /\ \E c \in 1..Len(commands) :
         commands[c].status = "resolved" /\ commands[c].value = <<>>
    /\ \E c \in 1..Len(commands) :
         /\ commands[c].status = "resolved"
         /\ Len(commands[c].value) >= 3
         /\ TextOf(commands[c].value) = {c}

\* C12: once the shell process is gone and all it wrote has been read, no execute
\* promise is pending: a command that was outstanding has been settled.
C12_ExitSettlesOutstanding ==
    (~alive /\ stdoutPipe = <<>> /\ stderrPipe = <<>>) =>
        \A c \in 1..Len(commands) : commands[c].status # "pending"

(***************************************************************************)
(* The agent loop: further properties                                      *)
(***************************************************************************)
\* the positions of the system and tool messages of h
PreservedPositions(h) == {k \in 1..Len(h) : h[k].role \in {"system", "tool"}}

\* n holds the system and tool messages of h, as they are and in their order,
\* followed by one summary message, and nothing else
IsCompactionOf(n, h) ==
    /\ Len(n) = Cardinality(PreservedPositions(h)) + 1
    /\ \A k \in PreservedPositions(h) :
         n[Cardinality({j \in PreservedPositions(h) : j <= k})] = h[k]
    /\ n[Len(n)].role = "system"
    /\ n[Len(n)].content = "summary"
    /\ n[Len(n)].tool_calls = <<>>

\* C13: compacting what compact returned changes nothing, for the history of every
\* state, and the history a successful compaction left is its own compaction.
C13_State ==
    /\ compact(compact(history)) = compact(history)
    /\ chatResult = "summary" => compact(history) = history

\* C13: the step in which the summarisation call succeeds replaces the history by
\* its system and tool messages, verbatim and in order, plus one summary; the step in
\* which it fails leaves the history as it was.
C13_CompactStep ==
    /\ (chatResult = "pending" /\ chatResult' = "summary") =>
            IsCompactionOf(history', history)
    /\ (chatResult = "pending" /\ chatResult' = "summary_rejected") => history' = history

\* C13 as one formula
C13_CompactionPreservesAndIsIdempotent == []C13_State /\ [][C13_CompactStep]_vars

\* a history compacted twice that holds a tool message: the second compaction kept
\* the tool message and the first summary
C13_Witness ==
    /\ pc = "idle"
    /\ chatResult = "summary"
    /\ \E k \in 1..Len(history) : history[k].role = "tool"
    /\ Cardinality({k \in 1..Len(history) : history[k] = SummaryMsg}) = 2

\* C14: the step that starts a write_file call suspends in the confirmation prompt
\* exactly when --yolo is off and the active skill does not allow Write; otherwise it
\* goes straight to the execution of the call.
C14_StartStep ==
    \A k \in 1..Len(tool_calls') :
        (tool_calls'[k].name = "write_file" /\ tool_calls'[k].id \in started' \ started) =>
            /\ pc' \in {"prompt", "exec"}
            /\ idx' = k
            /\ pc' = "prompt" <=> (~yolo /\ ~isToolAllowedBySkill(activeSkill', "Write"))

\* C14: every step of the loop satisfies C14_StartStep
C14_PromptUnlessYoloOrAllowed == [][C14_StartStep]_vars

\* C15: the step in which the adapter returns a response without tool calls appends
\* that response to the history as one assistant message, whatever its content is.
C15_FinalStep ==
    (chatResult = "pending" /\ chatResult' = "final") =>
        /\ Len(history') = Len(history) + 1
        /\ SubSeq(history', 1, Len(history)) = history
        /\ history'[Len(history')].role = "assistant"
        /\ history'[Len(history')].tool_calls = <<>>

\* C15: every step of the loop satisfies C15_FinalStep
C15_FinalResponseIsAppended == [][C15_FinalStep]_vars

\* C16: after a rejected adapter call the turn is over with the failure status and
\* the REPL reads the next input: no call is made again and no tool runs.
C16_State ==
    chatResult = "rejected" =>
        /\ pc = "idle"
        /\ outcome = "failed"
        /\ turns < MaxTurns => ENABLED UserInput

\* C16: the step in which the adapter call is rejected ends the turn, starts and
\* executes no tool call and leaves the history as it was.
C16_FailStep ==
    (chatResult = "pending" /\ chatResult' = "rejected") =>
        /\ pc' = "idle"
        /\ outcome' = "failed"
        /\ started' = started
        /\ executed' = executed
        /\ history' = history
        /\ nextId' = nextId

\* C16 as one formula
C16_AdapterFailureEndsTheTurn == []C16_State /\ [][C16_FailStep]_vars

\* the first turn ended by a rejected adapter call made after a tool had run
C16_Witness ==
    /\ chatResult = "rejected"
    /\ pc = "idle"
    /\ turns = 1
    /\ executed # {}

\* C17: a turn during which Escape was pressed has ended as cancelled, not as failed
\* (and not as a final answer), and no tool call was started once Escape was pressed.
C17_CancelledTurnEndsCancelled ==
    (pc = "idle" /\ aborted) => outcome = "cancelled"

\* C18: the key listener of a turn is registered at most once at any moment, and
\* when the turn has returned, however it ended, it is not registered.
C18_ListenerUnregistered ==
    /\ listeners <= 1
    /\ pc = "idle" => listeners = 0

\* the second turn was ended by an exception thrown in the tool loop, after a
\* confirmation prompt was answered earlier in the session
C18_Witness ==
    /\ pc = "idle"
    /\ turns = 2
    /\ outcome = "failed"
    /\ chatResult = "tool_calls"
    /\ declined # {}
    /\ started \ (executed \cup declined \cup failedCalls) # {}

\* C19: while a batch is processed, the history ends with the assistant message of
\* the batch followed by the tool messages of the calls handled so far, in call
\* order; the call at the loop position has no tool message yet, and no later call of
\* the batch was started, confirmed or executed.
C19_State ==
    (tool_calls # <<>> /\ pc \in {"prompt", "exec", "chat"}) =>
        LET n == Len(tool_calls)
            done == IF pc = "chat" THEN n ELSE idx - 1
            L == Len(history)
        IN  /\ L >= done + 1
            /\ history[L - done].role = "assistant"
            /\ \A k \in 1..n :
                 /\ history[L - done].tool_calls[k] = tool_calls[k].id
                 /\ k <= done => ToolMsgsFor(history, tool_calls[k].id) = {L - done + k}
                 /\ k > done => ToolMsgsFor(history, tool_calls[k].id) = {}
                 /\ (k > done + 1) => /\ tool_calls[k].id \notin started
                                      /\ tool_calls[k].id \notin executed
                                      /\ tool_calls[k].id \notin declined

\* C19: a step that starts a call of the batch leaves a history in which every earlier
\* call of the batch has its tool message.
C19_StartStep ==
    \A k \in 1..Len(tool_calls') :
        tool_calls'[k].id \in started' \ started =>
            \A m \in 1..(k - 1) : ToolMsgsFor(history', tool_calls'[m].id) # {}

\* C19 as one formula
C19_SequentialInCallOrder == []C19_State /\ [][C19_StartStep]_vars

\* two write_file calls in one batch: the first was confirmed and executed, the
\* confirmation of the second is being asked
C19_Witness ==
    /\ pc = "prompt"
    /\ idx = 2
    /\ tool_calls[1].name = "write_file"
    /\ tool_calls[1].id \in executed

(***************************************************************************)
(* The MCP handshake: properties                                           *)
(***************************************************************************)
\* the order of the messages of a handshake
HandshakeOrder == <<"initialize", "notifications/initialized", "tools/list">>

\* the response to the initialize request was handled before message k was written
AfterInitializeResponse(k) ==
    /\ promises[1].status = "resolved"
    /\ \E j \in (rpcWire[1].at + 1)..rpcWire[k].at : received[j] = rpcWire[1].id

\* C20: the messages written on the session are, in this order, the initialize
\* request, the initialized notification and the tools/list request; the last two
\* are written only after the response carrying the id of the initialize request was
\* handled; when initialize has failed neither of them is written, and tools of the
\* session are in the registry only after both requests were answered.
C20_HandshakeOrder ==
    /\ \A k \in 1..Len(rpcWire) :
         /\ k <= 3 => rpcWire[k].method = HandshakeOrder[k]
         /\ k > 3 => rpcWire[k].method = "tools/call"
         /\ k >= 2 => AfterInitializeResponse(k)
    /\ (mcpPc = "failed" /\ Len(promises) < 2) =>
         /\ Len(rpcWire) <= 1
         /\ tools \cap McpTools = {}
         /\ mcpClients = 0
    /\ (tools \cap McpTools # {} \/ mcpClients > 0) =>
         /\ mcpPc = "connected"
         /\ Len(rpcWire) >= 3
         /\ promises[2].status = "resolved"

\* a completed handshake on a session whose first line was not the initialize
\* response: the tools of the server are registered
C20_Witness ==
    /\ mcpPc = "connected"
    /\ tools \cap McpTools # {}
    /\ received[1] # rpcWire[1].id

\* the text payloads of the blocks that have one, in order, joined by line ends
RECURSIVE JoinPayloads(_)
JoinPayloads(content) ==
    LET withText == SelectSeq(content, LAMBDA c : c.hasText)
    IN  IF withText = <<>> THEN <<>>
        ELSE IF Len(withText) = 1 THEN withText[1].text
        ELSE withText[1].text \o <<"\n">> \o JoinPayloads(Tail(withText))

\* C21: an execute on a remote tool whose result carries the error flag throws; one
\* whose result carries content blocks and no error flag returns the text payloads of
\* the blocks that have one, in order, as one string: a block without a text payload
\* adds nothing to it.
C21_FlattensTextBlocks ==
    /\ adapterCall.status \in {"returned", "threw"} /\ adapterCall.result.isError =>
         adapterCall.status = "threw"
    /\ (adapterCall.status = "returned" /\ adapterCall.result.isArray) =>
         adapterCall.value = JoinPayloads(adapterCall.result.content)

(***************************************************************************)
(* The agent loop: permissions                                             *)
(***************************************************************************)
\* the step answers yes to the confirmation prompt of call k of the batch
ApprovedInStep(k) == pc = "prompt" /\ idx = k

\* C22: while a skill with a non-empty allowed-tools list is active (and --yolo is
\* off), the step that invokes the execute of a call whose tool is not in that list is
\* the step in which the user approved that call.
C22_ExecStep ==
    \A k \in 1..Len(tool_calls') :
        (/\ ~yolo
         /\ tool_calls'[k].id \in executed' \ executed
         /\ activeSkill' # "null"
         /\ AllowedTools(activeSkill') # {}
         /\ ToolMapping(tool_calls'[k].name) \notin AllowedTools(activeSkill'))
            => ApprovedInStep(k)

\* C22: every step of the loop satisfies C22_ExecStep
C22_OnlyAllowedToolsWithoutApproval == [][C22_ExecStep]_vars

\* the git operations the model can request
GitOperations == {"git_commit", "git_push", "git_pull"}

\* C23: without --yolo, the step that invokes the execute of a git operation is the
\* step in which the user confirmed that call.
C23_ExecStep ==
    \A k \in 1..Len(tool_calls') :
        (tool_calls'[k].id \in executed' \ executed /\ tool_calls'[k].name \in GitOperations)
            => (yolo \/ ApprovedInStep(k))

\* C23: every step of the loop satisfies C23_ExecStep
C23_GitNeedsConfirmation == [][C23_ExecStep]_vars

(***************************************************************************)
(* The context meter: properties                                           *)
(***************************************************************************)
\* the characters of the contents and of the serialized tool calls of h
RECURSIVE CharactersOf(_)
CharactersOf(h) ==
    IF h = <<>> THEN 0 ELSE h[Len(h)].content + h[Len(h)].calls + CharactersOf(SubSeq(h, 1, Len(h) - 1))

\* 100 * tokens / limit rounded to the nearest integer, halves upwards
RoundedPercent(tokens, limit) == (200 * tokens + limit) \div (2 * limit)

\* C24: for every measured history the reported token count is
\* ceil((characters of contents + characters of serialized tool calls + 2000) / 4),
\* 500 for the empty history; the reported percentage is
\* min(100, round(100 * tokens / maxTokens)) and lies in 0..100; and shouldCompact
\* holds exactly when that percentage is at least 80.
C24_UsageIsRoundedPercentage ==
    LET total == CharactersOf(measured) + 2000
        exact == RoundedPercent(usage.tokens, maxTokens)
    IN  /\ 4 * usage.tokens >= total
        /\ 4 * (usage.tokens - 1) < total
        /\ measured = <<>> => usage.tokens = 500
        /\ usage.percentage = (IF exact < 100 THEN exact ELSE 100)
        /\ usage.percentage \in 0..100
        /\ shouldCompact(measured) <=> usage.percentage >= 80

(***************************************************************************)
(* The agent loop: further properties                                      *)
(***************************************************************************)
\* the built-in tools that only read
ConcurrentClass == {"read_file", "list_dir", "search_file", "git_status", "git_diff"}

\* the positions of the calls of the batch that a registered read-only tool serves
ConcurrentCalls(calls) ==
    {k \in 1..Len(calls) : calls[k].name \in ConcurrentClass /\ calls[k].args = "json"}

\* while the loop awaits the result of a read-only call, every read-only call of the
\* batch has been handed to its tool
C25_State ==
    (pc = "exec" /\ idx \in ConcurrentCalls(tool_calls)) =>
        \A k \in ConcurrentCalls(tool_calls) : tool_calls[k].id \in executed

\* a read-only call that fails does not keep the read-only call after it from running
C25_FailStep ==
    (/\ pc = "exec"
     /\ idx \in ConcurrentCalls(tool_calls)
     /\ tool_calls[idx].id \in failedCalls' \ failedCalls
     /\ ~aborted
     /\ idx + 1 \in ConcurrentCalls(tool_calls))
        => tool_calls[idx + 1].id \in executed'

\* C25: the side-effect-free calls of one batch are all started before the result
\* of any of them is awaited, and the failure of one neither prevents nor aborts the
\* execution of its siblings.
C25_ConcurrentCallsStartTogether == []C25_State /\ [][C25_FailStep]_vars

\* C26: within one turn every call handleChat makes on the model adapter is handed
\* the same set of tool definitions: a tool added to the registry while the turn is
\* in progress is first advertised in a following turn.
C26_SameToolsWithinTurn == Cardinality(advertised) <= 1

\* the history holds the cancelled batch of call c as the turn left it: an assistant
\* message records the batch, each of its calls that was started is answered by one
\* tool message after it, and its calls that were not started by none
CancelledForm(h, c) ==
    \E k \in RecordedIn(h, c) :
        \A m \in 1..Len(h[k].tool_calls) :
            LET d == h[k].tool_calls[m]
            IN  IF d \in skipped
                THEN ToolMsgsFor(h, d) = {}
                ELSE /\ d \in started
                     /\ Cardinality(ToolMsgsFor(h, d)) = 1
                     /\ \A t \in ToolMsgsFor(h, d) : t > k

C27_State ==
    \A c \in skipped :
        /\ ToolMsgsFor(history, c) = {}
        /\ RecordedIn(history, c) # {} => CancelledForm(history, c)

\* the turn that is cancelled leaves the batch recorded, and only the compaction
\* takes the record away
C27_Step ==
    /\ \A c \in skipped' \ skipped : RecordedIn(history', c) # {}
    /\ \A c \in skipped :
         (RecordedIn(history, c) # {} /\ RecordedIn(history', c) = {}) => pc = "compactChat"

RecordedAfter(h, g) ==
    UNION {{h[k].tool_calls[m] : m \in {n \in 1..Len(h[k].tool_calls) :
                                          \E j \in 1..(n - 1) : h[k].tool_calls[j] = g}} :
           k \in RecordedIn(h, g)}

\* a call whose arguments did not parse is never answered, and the calls recorded
\* after it are neither started nor executed nor answered
C28_State ==
    \A g \in unparsed :
        /\ ToolMsgsFor(history, g) = {}
        /\ g \notin executed
        /\ \A d \in RecordedAfter(history, g) :
             d \notin started /\ d \notin executed /\ ToolMsgsFor(history, d) = {}

\* the step in which JSON.parse rejects the arguments of call g ends the turn as
\* failed: the model is not called again and the batch stays recorded
C28_ParseStep ==
    \A g \in unparsed' \ unparsed :
        /\ pc' = "idle"
        /\ outcome' = "failed"
        /\ chatResult' # "pending"
        /\ RecordedIn(history', g) # {}

\* C28: a tool call whose arguments are not valid JSON ends the whole turn with the
\* failure status: no tool message is appended for that call, the remaining calls of
\* the batch are not executed, the model is not re-invoked, and the assistant message
\* recording the batch stays in the history.
C28_InvalidArgumentsFailTheTurn == []C28_State /\ [][C28_ParseStep]_vars

\* the first call of a batch of two did not parse: the turn failed with the second
\* call recorded and not started
C28_Witness ==
    /\ pc = "idle"
    /\ outcome = "failed"
    /\ \E g \in unparsed : \E d \in RecordedAfter(history, g) : d \notin started

(***************************************************************************)
(* PersistentShell: further properties                                     *)
(***************************************************************************)
\* the shell has ended with a command outstanding
EndedWhileOutstanding == ~alive /\ resolveCallback # 0

\* the output not yet read holds no delimiter
NoDelimiterUnread == ~IncludesDelimiter(stdoutPipe \o stderrPipe)

\* the outstanding command stays outstanding over the step, and an execute call made
\* in the step is rejected without writing to the shell
StaysBusy ==
    /\ resolveCallback' = resolveCallback
    /\ rejectCallback' = rejectCallback
    /\ commands'[resolveCallback].status = "pending"
    /\ Len(commands') > Len(commands) =>
         /\ commands'[Len(commands')].status = "rejected"
         /\ shellStdin' = shellStdin

C29_State ==
    (EndedWhileOutstanding /\ NoDelimiterUnread) =>
        /\ resolveCallback \in 1..Len(commands)
        /\ commands[resolveCallback].status = "pending"
        /\ commands[resolveCallback].resolves = 0

C29_Step ==
    (EndedWhileOutstanding /\ NoDelimiterUnread) =>
        /\ StaysBusy
        /\ EndedWhileOutstanding'
        /\ NoDelimiterUnread'

IsDisconnectStep ==
    /\ mcpPc' = "closed"
    /\ skillsReady' = skillsReady
    /\ mcpPc # "closed" \/ tools' # tools

\* the disconnect leaves no session listed and exactly the eleven built-in tools
\* registered, and settles no request
C30_DisconnectStep ==
    IsDisconnectStep =>
        /\ mcpClients' = 0
        /\ tools' = BuiltinTools
        /\ Cardinality(tools') = 11
        /\ promises' = promises
        /\ pendingRequests' = pendingRequests

\* the original statement: after the disconnect the skill and custom-command tools
\* are absent for the rest of the session
C30_SkillToolsAbsentState == mcpPc = "closed" => tools \cap SkillTools = {}

C30_StayStep ==
    (mcpPc = "closed" /\ skillsReady /\ tools = BuiltinTools) => tools' = BuiltinTools

====
